---- MODULE Spec2Model ----
(***************************************************************************)
(* Model of the health-cost estimator: HealthCostPredictorAgent            *)
(* (health_cost_agent.py), the reference tables of load_data.py and their  *)
(* loading from the data directory, the lifestyle scorer and the request   *)
(* handler of app.py with its two collaborators, the advice service and    *)
(* the report of pdf_generator.py.                                         *)
(*                                                                         *)
(* Numbers.  Python floats are modelled as exact rationals [n, d] in       *)
(* lowest terms; round(x, 2) and the ".2f" formats round half to even, as  *)
(* Python does on a value that is exactly representable.  Binary rounding  *)
(* error of the float operations themselves is not modelled.               *)
(* Strings are TLA+ strings; str.lower is the table Lower over the names   *)
(* the model draws its inputs from.                                        *)
(***************************************************************************)
EXTENDS Integers, Sequences, FiniteSets, TLC

VARIABLES agent, frames, scorer, handler, fs, loaded, bracket

vars == <<agent, frames, scorer, handler, fs, loaded, bracket>>

\* ------------------------------------------------------------ bounds
\* longest chronic_conditions list drawn as an input
MaxConds == 2
\* longest family_history list drawn as an input
MaxFamily == 1
\* sleep_hours is drawn in steps of 1/SleepUnit hour
SleepUnit == 2
\* largest fruit_veg drawn as an input
MaxFruit == 7

\* the lines of an answer of the advice service are at most MaxLines
MaxLines == 2

\* longest list drawn where terms are repeated and mixed
MaxListed == 3

\* ages are drawn from -AgeSpan to AgeSpan
AgeSpan == 100

\* ------------------------------------------------------------ numbers
Abs(x) == IF x < 0 THEN -x ELSE x

RECURSIVE Gcd(_, _)
Gcd(a, b) == IF b = 0 THEN a ELSE Gcd(b, a % b)

\* the rational n/d (d > 0) in lowest terms
Rat(n, d) == LET g == Gcd(Abs(n), d) IN [n |-> n \div g, d |-> d \div g]

RatInt(i) == [n |-> i, d |-> 1]

\* a decimal literal with two places, such as 0.96
Dec2(h) == Rat(h, 100)

RatAdd(x, y) == Rat(x.n * y.d + y.n * x.d, x.d * y.d)

RatSub(x, y) == Rat(x.n * y.d - y.n * x.d, x.d * y.d)

RatMul(x, y) == Rat(x.n * y.n, x.d * y.d)

\* the integer nearest to n/d (n >= 0), a tie going to the even one
RoundHalfEven(n, d) ==
    LET q == n \div d
        r == n % d
    IN  IF 2 * r < d THEN q
        ELSE IF 2 * r > d THEN q + 1
        ELSE IF q % 2 = 0 THEN q ELSE q + 1

\* round(x, 2)
Round2(x) == Rat(RoundHalfEven(x.n * 100, x.d), 100)

\* ------------------------------------------------------------ strings
\* str.lower on the names the inputs and tables are drawn from
Lower(s) ==
    CASE s = "Diabetes" -> "diabetes"
      [] s = "Flu" -> "flu"
      [] s = "Cancer" -> "cancer"
      [] OTHER -> s

RECURSIVE Join(_, _)
\* sep.join(parts)
Join(sep, parts) ==
    IF Len(parts) = 0 THEN ""
    ELSE IF Len(parts) = 1 THEN parts[1]
    ELSE parts[1] \o sep \o Join(sep, Tail(parts))

Digits2(k) == IF k < 10 THEN "0" \o ToString(k) ELSE ToString(k)

Digits3(k) == IF k < 100 THEN "0" \o Digits2(k) ELSE ToString(k)

RECURSIVE Grouped(_)
\* the "," thousands grouping of a non-negative integer
Grouped(k) ==
    IF k < 1000 THEN ToString(k)
    ELSE Grouped(k \div 1000) \o "," \o Digits3(k % 1000)

\* format(x, ".2f") for x >= 0
Fmt2f(x) ==
    LET c == RoundHalfEven(x.n * 100, x.d)
    IN  ToString(c \div 100) \o "." \o Digits2(c % 100)

\* format(x, ",.2f") for x >= 0
FmtComma2f(x) ==
    LET c == RoundHalfEven(x.n * 100, x.d)
    IN  Grouped(c \div 100) \o "." \o Digits2(c % 100)

\* format(x, ".0f") for x >= 0
Fmt0f(x) == ToString(RoundHalfEven(x.n, x.d))

\* ------------------------------------------------------------ dictionaries
\* a dict is a function on its set of keys; None and {} are the empty function
EmptyDict == [k \in {} |-> 0]

\* d.get(k, default)
DictGet(d, k, default) == IF k \in DOMAIN d THEN d[k] ELSE default

\* Python's "x or y" on a dict
DictOr(d, default) == IF DOMAIN d = {} THEN default ELSE d

\* Python's "x or y" on a string
StrOr(s, default) == IF s = "" THEN default ELSE s

\* ------------------------------------------------------------ load_data.py
Row(region, age_group, base_cost) ==
    [region |-> region, age_group |-> age_group, base_cost |-> base_cost]

default_costs ==
    << Row("USA", "30-39", 2000), Row("USA", "40-49", 3000),
       Row("USA", "50-59", 4000), Row("USA", "60+", 6000),
       Row("Europe", "30-39", 1500), Row("Europe", "40-49", 2250),
       Row("Europe", "50-59", 3000), Row("Europe", "60+", 4500),
       Row("Asia", "30-39", 1000), Row("Asia", "40-49", 1500),
       Row("Asia", "50-59", 2000), Row("Asia", "60+", 3000),
       Row("Turkey", "30-39", 800), Row("Turkey", "40-49", 1200),
       Row("Turkey", "50-59", 1600), Row("Turkey", "60+", 2400) >>

DefaultConditions ==
    {"diabetes", "hypertension", "heart_disease", "asthma", "cancer", "copd",
     "depression", "obesity"}

default_weights ==
    [c \in DefaultConditions |->
        CASE c = "diabetes" -> Dec2(96)
          [] c = "hypertension" -> Dec2(72)
          [] c = "heart_disease" -> Dec2(120)
          [] c = "asthma" -> Dec2(33)
          [] c = "cancer" -> Dec2(144)
          [] c = "copd" -> Dec2(96)
          [] c = "depression" -> Dec2(48)
          [] c = "obesity" -> Dec2(72)]

\* ------------------------------------------------------------ __init__
DefaultSources ==
    [c \in DefaultConditions |->
        CASE c = "diabetes" -> "https://www.cdc.gov/diabetes/data/statistics-report/index.html"
          [] c = "hypertension" -> "https://www.heart.org/en/health-topics/high-blood-pressure"
          [] c = "heart_disease" -> "https://www.heart.org/en/health-topics/consumer-healthcare/what-is-cardiovascular-disease"
          [] c = "asthma" -> "https://www.lung.org/lung-health-diseases/lung-disease-lookup/asthma"
          [] c = "cancer" -> "https://www.cancer.org/cancer/cancer-basics/cancer-facts-and-figures.html"
          [] c = "copd" -> "https://www.lung.org/lung-health-diseases/lung-disease-lookup/copd"
          [] c = "depression" -> "https://www.nimh.nih.gov/health/statistics/major-depression"
          [] c = "obesity" -> "https://www.cdc.gov/obesity/data/index.html"]

DefaultFamilyRisk ==
    [c \in {"cancer", "heart_disease", "diabetes"} |->
        CASE c = "cancer" -> Dec2(15)
          [] c = "heart_disease" -> Dec2(20)
          [] c = "diabetes" -> Dec2(15)]

DefaultLifestyleSource == "https://www.who.int/data/gho/data/themes/topics/health-behaviours"

DefaultInsuranceSource == "https://www.oecd.org/health/health-data.htm"

\* the default of the insurance_discount_rate parameter, 0.3
DefaultDiscountRate == Dec2(30)

\* weights with the source of each condition attached
InitWeights(weights, sources) ==
    [c \in DOMAIN weights |->
        [value |-> weights[c],
         source |-> IF c \in DOMAIN sources THEN sources[c]
                    ELSE "General medical research data"]]

\* HealthCostPredictorAgent(cost_data, weights, ...): the instance's fields
HealthCostPredictorAgent(cost_data, weights, chronic_condition_sources, family_history_risk, lifestyle_source, insurance_source, insurance_discount_rate) ==
    LET sources == DictOr(chronic_condition_sources, DefaultSources)
    IN  [cost_data |-> cost_data,
         chronic_condition_sources |-> sources,
         family_history_risk |-> DictOr(family_history_risk, DefaultFamilyRisk),
         lifestyle_source |-> StrOr(lifestyle_source, DefaultLifestyleSource),
         insurance_source |-> StrOr(insurance_source, DefaultInsuranceSource),
         insurance_discount_rate |-> insurance_discount_rate,
         weights |-> InitWeights(weights, sources)]

\* app.py: agent = HealthCostPredictorAgent(load_costs(), load_weights())
DefaultAgent ==
    HealthCostPredictorAgent(default_costs, default_weights, EmptyDict,
                             EmptyDict, "", "", DefaultDiscountRate)

\* an estimator built from reference files other than the defaults: a table
\* with a repeated (region, bracket) pair and a mean that is no decimal, a
\* weights file with a key that is not lower case, its own family risks,
\* insurance source and discount rate
CustomAgent ==
    HealthCostPredictorAgent(
        << Row("Turkey", "30-39", 900), Row("Turkey", "30-39", 950),
           Row("Turkey", "60+", 2501) >>,
        [c \in {"diabetes", "Flu"} |->
            IF c = "diabetes" THEN Dec2(50) ELSE Dec2(10)],
        [c \in {"diabetes"} |-> "regional registry"],
        [c \in {"gout", "diabetes"} |->
            IF c = "gout" THEN Dec2(5) ELSE Dec2(12)],
        "", "regional insurance report", Dec2(25))

Agents == {DefaultAgent, CustomAgent}

\* ------------------------------------------------------------ predict
Zero == RatInt(0)

One == RatInt(1)

Step(step, desc, value, source) ==
    [step |-> step, desc |-> desc, value |-> value, source |-> source]

NoResult == [final_cost |-> Zero, details |-> << >>]

\* the locals of a call that has not been entered
IdleFrame ==
    [pc |-> "idle", exc |-> "none",
     age |-> 0, region |-> "", chronic_conditions |-> << >>,
     family_history |-> << >>, lifestyle_score |-> 0,
     insurance_status |-> FALSE,
     age_group |-> "", base_cost |-> Zero, details |-> << >>,
     risk |-> Zero, chronic_risk |-> Zero, chronic_breakdown |-> << >>,
     family_risk |-> Zero, family_breakdown |-> << >>, i |-> 1,
     lifestyle_risk |-> Zero, predicted_cost |-> Zero, final_cost |-> Zero,
     result |-> NoResult]

\* the frame on entry to predict(age, region, ...)
Entry(age, region, chronic_conditions, family_history, lifestyle_score, insurance_status) ==
    [IdleFrame EXCEPT !.pc = "base_cost", !.age = age, !.region = region,
                      !.chronic_conditions = chronic_conditions,
                      !.family_history = family_history,
                      !.lifestyle_score = lifestyle_score,
                      !.insurance_status = insurance_status]

\* the brackets with their upper ends closed
GetAgeGroupClosed(age) ==
    IF age <= 40 THEN "30-39"
    ELSE IF age <= 50 THEN "40-49"
    ELSE IF age <= 60 THEN "50-59"
    ELSE "60+"

\* _get_age_group
GetAgeGroup(age) ==
    IF age < 40 THEN "30-39"
    ELSE IF age < 50 THEN "40-49"
    ELSE IF age < 60 THEN "50-59"
    ELSE "60+"

\* the lookup with the age_group comparison left out of the mask
LocBaseCostRegionOnly(cost_data, region, age_group) ==
    LET rows == SelectSeq(cost_data, LAMBDA r : r.region = region)
    IN  [k \in 1..Len(rows) |-> RatInt(rows[k].base_cost)]

\* cost_data.loc[(region == ...) & (age_group == ...), 'base_cost']
LocBaseCost(cost_data, region, age_group) ==
    LET rows == SelectSeq(cost_data,
                    LAMBDA r : r.region = region /\ r.age_group = age_group)
    IN  [k \in 1..Len(rows) |-> RatInt(rows[k].base_cost)]

\* series.iloc[0]: the first element, IndexError on an empty series
ILocFirst(series) ==
    IF Len(series) = 0 THEN [exc |-> "IndexError", value |-> Zero]
    ELSE [exc |-> "none", value |-> series[1]]

RECURSIVE SumBaseCost(_)
SumBaseCost(cost_data) ==
    IF Len(cost_data) = 0 THEN 0
    ELSE cost_data[1].base_cost + SumBaseCost(Tail(cost_data))

\* cost_data['base_cost'].mean() of a table with at least one row
MeanBaseCost(cost_data) == Rat(SumBaseCost(cost_data), Len(cost_data))

\* the lookup with an except clause that does not catch IndexError
TryBaseCostUncaught(self, region, age_group) ==
    ILocFirst(LocBaseCost(self.cost_data, region, age_group))

\* the try/except around the lookup: IndexError falls back to the mean
TryBaseCost(self, region, age_group) ==
    LET got == ILocFirst(LocBaseCost(self.cost_data, region, age_group))
    IN  IF got.exc = "IndexError"
        THEN [exc |-> "none", value |-> MeanBaseCost(self.cost_data)]
        ELSE got

\* lines 86-101: the base cost and its step
BaseCostStep(self, f) ==
    LET age_group == GetAgeGroup(f.age)
        got == TryBaseCost(self, f.region, age_group)
    IN  IF got.exc # "none"
        THEN [f EXCEPT !.pc = "raised", !.exc = got.exc]
        ELSE [f EXCEPT
                !.age_group = age_group,
                !.base_cost = got.value,
                !.details = << Step("Base Cost",
                    "Region: " \o f.region \o ", Age Group: " \o age_group,
                    got.value, self.insurance_source) >>,
                !.risk = Zero, !.chronic_risk = Zero,
                !.chronic_breakdown = << >>, !.i = 1,
                !.pc = "chronic"]

\* the default of self.weights.get(...) for a condition with no weight
NoWeight == [value |-> Zero, source |-> "Data not available"]

\* the iteration with "chronic_risk = cond_risk" for "chronic_risk += cond_risk"
ChronicIterAssigns(self, f) ==
    LET condition == f.chronic_conditions[f.i]
        cond_info == DictGet(self.weights, Lower(condition), NoWeight)
    IN  [f EXCEPT
            !.chronic_risk = cond_info.value,
            !.chronic_breakdown =
                Append(f.chronic_breakdown,
                       <<condition, cond_info.value, cond_info.source>>),
            !.i = f.i + 1]

\* the iteration that passes over a condition the breakdown already holds
ChronicIterOnce(self, f) ==
    LET condition == f.chronic_conditions[f.i]
        cond_info == DictGet(self.weights, Lower(condition), NoWeight)
        cond_risk == cond_info.value
    IN  IF \E j \in 1..Len(f.chronic_breakdown) :
                f.chronic_breakdown[j][1] = condition
        THEN [f EXCEPT !.i = f.i + 1]
        ELSE [f EXCEPT
                !.chronic_risk = RatAdd(f.chronic_risk, cond_risk),
                !.chronic_breakdown =
                    Append(f.chronic_breakdown,
                           <<condition, cond_risk, cond_info.source>>),
                !.i = f.i + 1]

\* lines 107-111: one iteration of the loop over chronic_conditions
ChronicIter(self, f) ==
    LET condition == f.chronic_conditions[f.i]
        cond_info == DictGet(self.weights, Lower(condition), NoWeight)
        cond_risk == cond_info.value
    IN  [f EXCEPT
            !.chronic_risk = RatAdd(f.chronic_risk, cond_risk),
            !.chronic_breakdown =
                Append(f.chronic_breakdown,
                       <<condition, cond_risk, cond_info.source>>),
            !.i = f.i + 1]

\* ', '.join(f"{c}: +{r:.2f} (Source: {s})" for c, r, s in breakdown)
BreakdownDesc(breakdown) ==
    Join(", ", [k \in 1..Len(breakdown) |->
        breakdown[k][1] \o ": +" \o Fmt2f(breakdown[k][2])
            \o " (Source: " \o breakdown[k][3] \o ")"])

\* '; '.join(s for _, _, s in breakdown)
BreakdownSource(breakdown) ==
    Join("; ", [k \in 1..Len(breakdown) |-> breakdown[k][3]])

\* the chronic step appended only when the conditions carry a risk
ChronicStepIfRisk(self, f) ==
    [f EXCEPT
        !.details =
            IF f.chronic_risk # Zero
            THEN Append(f.details,
                    Step("Chronic Conditions",
                         BreakdownDesc(f.chronic_breakdown),
                         f.chronic_risk,
                         BreakdownSource(f.chronic_breakdown)))
            ELSE f.details,
        !.risk = RatAdd(f.risk, f.chronic_risk),
        !.family_risk = Zero, !.family_breakdown = << >>, !.i = 1,
        !.pc = "family"]

\* lines 112-122: the "Chronic Conditions" step, after the loop
ChronicStep(self, f) ==
    [f EXCEPT
        !.details =
            IF Len(f.chronic_breakdown) # 0
            THEN Append(f.details,
                    Step("Chronic Conditions",
                         BreakdownDesc(f.chronic_breakdown),
                         f.chronic_risk,
                         BreakdownSource(f.chronic_breakdown)))
            ELSE f.details,
        !.risk = RatAdd(f.risk, f.chronic_risk),
        !.family_risk = Zero, !.family_breakdown = << >>, !.i = 1,
        !.pc = "family"]

\* the family loop recording an unrecognised term with risk 0, as the
\* chronic loop does
FamilyIterKeepsUnknown(self, f) ==
    LET condition == f.family_history[f.i]
        fam_risk == DictGet(self.family_history_risk, Lower(condition), Zero)
    IN  [f EXCEPT
            !.family_risk = RatAdd(f.family_risk, fam_risk),
            !.family_breakdown =
                Append(f.family_breakdown,
                    <<condition, fam_risk,
                      DictGet(self.chronic_condition_sources,
                              Lower(condition),
                              "General medical research data")>>),
            !.i = f.i + 1]

\* lines 123-127: one iteration of the loop over family_history
FamilyIter(self, f) ==
    LET condition == f.family_history[f.i]
    IN  IF Lower(condition) \in DOMAIN self.family_history_risk
        THEN LET fam_risk == self.family_history_risk[Lower(condition)]
             IN  [f EXCEPT
                    !.family_risk = RatAdd(f.family_risk, fam_risk),
                    !.family_breakdown =
                        Append(f.family_breakdown,
                            <<condition, fam_risk,
                              DictGet(self.chronic_condition_sources,
                                      Lower(condition),
                                      "General medical research data")>>),
                    !.i = f.i + 1]
        ELSE [f EXCEPT !.i = f.i + 1]

\* the family step without the family risk added to the total
FamilyStepRiskLost(self, f) ==
    [f EXCEPT
        !.details =
            IF Len(f.family_breakdown) # 0
            THEN Append(f.details,
                    Step("Family History",
                         BreakdownDesc(f.family_breakdown),
                         f.family_risk,
                         BreakdownSource(f.family_breakdown)))
            ELSE f.details,
        !.pc = "lifestyle"]

\* lines 128-135: the "Family History" step, after the loop
FamilyStep(self, f) ==
    [f EXCEPT
        !.details =
            IF Len(f.family_breakdown) # 0
            THEN Append(f.details,
                    Step("Family History",
                         BreakdownDesc(f.family_breakdown),
                         f.family_risk,
                         BreakdownSource(f.family_breakdown)))
            ELSE f.details,
        !.risk = RatAdd(f.risk, f.family_risk),
        !.pc = "lifestyle"]

\* the lifestyle risk with 0.3 for 0.03
LifestyleRiskTenfold(lifestyle_score) ==
    RatMul(RatInt(10 - lifestyle_score), Dec2(30))

\* (10 - lifestyle_score) * 0.03
LifestyleRisk(lifestyle_score) ==
    RatMul(RatInt(10 - lifestyle_score), Dec2(3))

\* the lifestyle step appended only when there is a risk, as the chronic and
\* family steps are
LifestyleStepIfRisk(self, f) ==
    LET lifestyle_risk == RatMul(RatInt(10 - f.lifestyle_score), Dec2(3))
    IN  [f EXCEPT
            !.lifestyle_risk = lifestyle_risk,
            !.details =
                IF lifestyle_risk # Zero
                THEN Append(f.details,
                        Step("Lifestyle Score",
                             "Score: " \o ToString(f.lifestyle_score)
                                \o "/10 -> Risk: +" \o Fmt2f(lifestyle_risk),
                             lifestyle_risk, self.lifestyle_source))
                ELSE f.details,
            !.risk = RatAdd(f.risk, lifestyle_risk),
            !.pc = "total"]

\* lines 137-144
LifestyleStep(self, f) ==
    LET lifestyle_risk == LifestyleRisk(f.lifestyle_score)
    IN  [f EXCEPT
            !.lifestyle_risk = lifestyle_risk,
            !.details = Append(f.details,
                Step("Lifestyle Score",
                     "Score: " \o ToString(f.lifestyle_score)
                        \o "/10 -> Risk: +" \o Fmt2f(lifestyle_risk),
                     lifestyle_risk, self.lifestyle_source)),
            !.risk = RatAdd(f.risk, lifestyle_risk),
            !.pc = "total"]

\* lines 146-151
TotalRiskStep(self, f) ==
    [f EXCEPT
        !.details = Append(f.details,
            Step("Total Risk Factor",
                 "Sum of all risk factors (Chronic Conditions + Family History + Lifestyle)",
                 f.risk, "Internal Model Calculation")),
        !.pc = "pre_cost"]

\* lines 153-159
PreCostStep(self, f) ==
    LET predicted_cost == RatMul(f.base_cost, RatAdd(One, f.risk))
    IN  [f EXCEPT
            !.predicted_cost = predicted_cost,
            !.details = Append(f.details,
                Step("Cost Before Insurance",
                     "Base Cost ($" \o FmtComma2f(f.base_cost)
                        \o ") x (1 + Total Risk " \o Fmt2f(f.risk) \o ")",
                     predicted_cost, "Internal Model Calculation")),
            !.pc = "insurance"]

\* the discount added to the cost
DiscountedUp(predicted_cost, rate) == RatMul(predicted_cost, RatAdd(One, rate))

\* the discount with the rate for its complement
DiscountedByRate(predicted_cost, rate) == RatMul(predicted_cost, rate)

\* predicted_cost * (1 - self.insurance_discount_rate)
Discounted(predicted_cost, rate) == RatMul(predicted_cost, RatSub(One, rate))

\* lines 161-176
InsuranceStep(self, f) ==
    LET final_cost ==
            IF f.insurance_status
            THEN Discounted(f.predicted_cost, self.insurance_discount_rate)
            ELSE f.predicted_cost
        desc ==
            IF f.insurance_status
            THEN "Applied "
                    \o Fmt0f(RatMul(self.insurance_discount_rate, RatInt(100)))
                    \o "% discount for insurance"
            ELSE "No insurance discount applied"
    IN  [f EXCEPT
            !.final_cost = final_cost,
            !.details = Append(f.details,
                Step("Insurance Discount", desc, final_cost,
                     self.insurance_source)),
            !.pc = "return"]

\* lines 178-181
ReturnStep(self, f) ==
    [f EXCEPT
        !.result = [final_cost |-> Round2(f.final_cost),
                    details |-> f.details],
        !.pc = "done"]

\* the statement of predict at which frame f stands
StepFrame(self, f) ==
    CASE f.pc = "base_cost" -> BaseCostStep(self, f)
      [] f.pc = "chronic" ->
            IF f.i <= Len(f.chronic_conditions) THEN ChronicIter(self, f)
            ELSE ChronicStep(self, f)
      [] f.pc = "family" ->
            IF f.i <= Len(f.family_history) THEN FamilyIter(self, f)
            ELSE FamilyStep(self, f)
      [] f.pc = "lifestyle" -> LifestyleStep(self, f)
      [] f.pc = "total" -> TotalRiskStep(self, f)
      [] f.pc = "pre_cost" -> PreCostStep(self, f)
      [] f.pc = "insurance" -> InsuranceStep(self, f)
      [] f.pc = "return" -> ReturnStep(self, f)

RECURSIVE RunFrame(_, _)
\* predict run from frame f to its return, or to the exception it raises
RunFrame(self, f) ==
    IF f.pc \in {"done", "raised"} THEN f
    ELSE RunFrame(self, StepFrame(self, f))

\* self.predict(...) run alone
Predict(self, age, region, chronic_conditions, family_history, lifestyle_score, insurance_status) ==
    RunFrame(self, Entry(age, region, chronic_conditions, family_history,
                         lifestyle_score, insurance_status))

\* ------------------------------------------------------------ app.py
\* the scorer with the 3-4 days branch of the exercise axis adding nothing
ScoreExerciseBranchLost(exercise_days, fruit_veg, sleep) ==
    LET exercise == IF exercise_days >= 5 THEN 3
                    ELSE IF exercise_days >= 3 THEN 0
                    ELSE IF exercise_days >= 1 THEN 1
                    ELSE 0
        nutrition == IF fruit_veg >= 5 THEN 3
                     ELSE IF fruit_veg >= 3 THEN 2
                     ELSE IF fruit_veg >= 1 THEN 1
                     ELSE 0
        rest == IF 7 * SleepUnit <= sleep /\ sleep <= 9 * SleepUnit THEN 4
                ELSE IF \/ 6 * SleepUnit <= sleep /\ sleep < 7 * SleepUnit
                        \/ 9 * SleepUnit < sleep /\ sleep <= 10 * SleepUnit
                     THEN 2
                ELSE 0
        score == exercise + nutrition + rest
    IN  IF score < 10 THEN score ELSE 10

\* the scorer with the sleep band open at 7 hours
ScoreSleepBandOpen(exercise_days, fruit_veg, sleep) ==
    LET exercise == IF exercise_days >= 5 THEN 3
                    ELSE IF exercise_days >= 3 THEN 2
                    ELSE IF exercise_days >= 1 THEN 1
                    ELSE 0
        nutrition == IF fruit_veg >= 5 THEN 3
                     ELSE IF fruit_veg >= 3 THEN 2
                     ELSE IF fruit_veg >= 1 THEN 1
                     ELSE 0
        rest == IF 7 * SleepUnit < sleep /\ sleep <= 9 * SleepUnit THEN 4
                ELSE IF \/ 6 * SleepUnit <= sleep /\ sleep < 7 * SleepUnit
                        \/ 9 * SleepUnit < sleep /\ sleep <= 10 * SleepUnit
                     THEN 2
                ELSE 0
        score == exercise + nutrition + rest
    IN  IF score < 10 THEN score ELSE 10

\* calculate_lifestyle_score; sleep is sleep_hours in units of 1/SleepUnit hour
calculate_lifestyle_score(exercise_days, fruit_veg, sleep) ==
    LET exercise == IF exercise_days >= 5 THEN 3
                    ELSE IF exercise_days >= 3 THEN 2
                    ELSE IF exercise_days >= 1 THEN 1
                    ELSE 0
        nutrition == IF fruit_veg >= 5 THEN 3
                     ELSE IF fruit_veg >= 3 THEN 2
                     ELSE IF fruit_veg >= 1 THEN 1
                     ELSE 0
        rest == IF 7 * SleepUnit <= sleep /\ sleep <= 9 * SleepUnit THEN 4
                ELSE IF \/ 6 * SleepUnit <= sleep /\ sleep < 7 * SleepUnit
                        \/ 9 * SleepUnit < sleep /\ sleep <= 10 * SleepUnit
                     THEN 2
                ELSE 0
        score == exercise + nutrition + rest
    IN  IF score < 10 THEN score ELSE 10

\* str.strip on the comma-separated pieces of the two text boxes
Strip(s) ==
    CASE s = " " -> ""
      [] s = " Flu" -> "Flu"
      [] s = " diabetes " -> "diabetes"
      [] OTHER -> s

\* [p.strip() for p in text.split(',') if p.strip()], on the pieces
\* text.split(',') gives
StripNonEmpty(pieces) ==
    LET kept == SelectSeq(pieces, LAMBDA p : Strip(p) # "")
    IN  [k \in 1..Len(kept) |-> Strip(kept[k])]

\* rec.strip('- ').strip() on the lines of the advice service's answers
StripDash(rec) ==
    CASE rec = "- Walk daily" -> "Walk daily"
      [] OTHER -> rec

\* len(rec.split("Source:")) on the same lines
SourceParts(rec) ==
    CASE rec = "Check glucose. Source: CDC" -> 2
      [] rec = "Rest. Source: WHO. Source: NIH" -> 3
      [] OTHER -> 1

\* the static fallback of generate_recommendations
FallbackRecommendations ==
    << "Unable to generate recommendations at this time. Please consult with your healthcare provider." >>

RECURSIVE Unique(_, _)
\* the loop over the answer's lines: cleaned, blanks and repeats dropped
Unique(lines, seen) ==
    IF Len(lines) = 0 THEN << >>
    ELSE LET clean_rec == StripDash(Head(lines))
         IN  IF clean_rec # "" /\ clean_rec \notin seen
             THEN <<clean_rec>> \o Unique(Tail(lines), seen \cup {clean_rec})
             ELSE Unique(Tail(lines), seen)

\* generate_recommendations, given what client.models.generate_content did:
\* raised, answered without text, or answered with the lines of its text
generate_recommendations(response) ==
    IF response.kind = "raises" THEN FallbackRecommendations
    ELSE IF response.kind = "no_text" THEN FallbackRecommendations
    ELSE Unique(response.lines, {})

NoException == [type |-> "none", msg |-> ""]

Raised(type, msg) == [type |-> type, msg |-> msg]

\* the path of the report written at time stamp
ReportPath(stamp) == "reports/health_cost_prediction_" \o stamp \o ".pdf"

\* generate_health_cost_report, given what the file system does to
\* os.makedirs and doc.build: the exception it leaves with, or the path
generate_health_cost_report(recommendations, disk, stamp) ==
    IF disk = "makedirs_fails"
    THEN [exc |-> Raised("OSError", "Permission denied: 'reports'"),
          value |-> ""]
    ELSE IF \E k \in 1..Len(recommendations) :
                SourceParts(recommendations[k]) > 2
    THEN [exc |-> Raised("ValueError", "too many values to unpack (expected 2)"),
          value |-> ""]
    ELSE IF disk = "build_fails"
    THEN [exc |-> Raised("OSError", "No space left on device"), value |-> ""]
    ELSE [exc |-> NoException, value |-> ReportPath(stamp)]

\* the detail lines of the handler's text; where this has "Deger" the source
\* has the word with a g-breve
DetailLines(details) ==
    [k \in 1..Len(details) |->
        details[k].step \o ": " \o details[k].desc \o " (Deger: "
            \o Fmt2f(details[k].value) \o ")"]

\* prediction_text; where this has "Oneriler" the source has an O-umlaut
PredictionText(final_cost, details, recommendations) ==
    LET rec_lines == [k \in 1..Len(recommendations) |->
                        "- " \o recommendations[k]]
    IN  "Predicted Annual Health Cost: $" \o FmtComma2f(final_cost) \o "\n\n"
        \o "Calculation Steps:\n" \o Join("\n", DetailLines(details))
        \o (IF Len(rec_lines) > 0
            THEN "\n\nOneriler:\n" \o Join("\n", rec_lines) ELSE "")

\* the handler's except clause
ErrorText(exc) == "An error occurred: " \o exc.msg

\* predict_health_cost(...): the locals and the returned pair; response, disk
\* and stamp are what the advice service, the file system and the clock do
predict_health_cost(self, age, region, chronic_conditions, family_history, exercise_days, fruit_veg, sleep, insurance_status, response, disk, stamp) ==
    LET conditions == StripNonEmpty(chronic_conditions)
        family == StripNonEmpty(family_history)
        lifestyle_score == calculate_lifestyle_score(exercise_days, fruit_veg, sleep)
        frame == Predict(self, age, region, conditions, family,
                         lifestyle_score, insurance_status)
        recommendations == generate_recommendations(response)
        report == generate_health_cost_report(recommendations, disk, stamp)
        locals == [pc |-> "returned", conditions |-> conditions,
                   family |-> family, lifestyle_score |-> lifestyle_score,
                   response |-> response, disk |-> disk,
                   result |-> frame.result, predict_exc |-> frame.exc,
                   recommendations |-> << >>, report_exc |-> NoException,
                   prediction_text |-> "", pdf_path |-> ""]
    IN  IF frame.pc = "raised"
        THEN [locals EXCEPT
                !.prediction_text = ErrorText(Raised(frame.exc, frame.exc))]
        ELSE IF report.exc # NoException
        THEN [locals EXCEPT
                !.recommendations = recommendations,
                !.report_exc = report.exc,
                !.prediction_text = ErrorText(report.exc)]
        ELSE [locals EXCEPT
                !.recommendations = recommendations,
                !.prediction_text =
                    PredictionText(frame.result.final_cost,
                                   frame.result.details, recommendations),
                !.pdf_path = report.value]

\* ------------------------------------------------------------ load_data.py on files
\* a file: missing, or with what its content is to its reader
File(kind, content) == [kind |-> kind, content |-> content]

Missing == File("missing", << >>)

\* pd.read_csv('data/health_costs_by_region.csv'): a file of no bytes has no
\* columns to parse, a file of ragged rows cannot be tokenized
read_csv(file) ==
    CASE file.kind = "missing" ->
            [exc |-> Raised("FileNotFoundError", "No such file or directory"),
             value |-> << >>]
      [] file.kind = "empty" ->
            [exc |-> Raised("EmptyDataError", "No columns to parse from file"),
             value |-> << >>]
      [] file.kind = "unparsable" ->
            [exc |-> Raised("ParserError", "Error tokenizing data"),
             value |-> << >>]
      [] file.kind = "header_only" -> [exc |-> NoException, value |-> << >>]
      [] file.kind = "table" -> [exc |-> NoException, value |-> file.content]

\* load_costs() on file system f: the exception or the table it returns, and
\* the file system it leaves
load_costs(f) ==
    LET made == [f EXCEPT !.data_dir = TRUE]
        written == [made EXCEPT !.costs_file = File("table", default_costs)]
        read == read_csv(made.costs_file)
    IN  IF read.exc.type \in {"FileNotFoundError", "EmptyDataError"}
        THEN [exc |-> NoException, value |-> default_costs, fs |-> written]
        ELSE IF read.exc # NoException
        THEN [exc |-> read.exc, value |-> << >>, fs |-> made]
        ELSE IF Len(read.value) = 0
        THEN [exc |-> NoException, value |-> default_costs, fs |-> written]
        ELSE [exc |-> NoException, value |-> read.value, fs |-> made]

\* open('data/chronic_condition_weights.json', 'r') and json.load
json_load(file) ==
    CASE file.kind = "missing" ->
            [exc |-> Raised("FileNotFoundError", "No such file or directory"),
             value |-> EmptyDict]
      [] file.kind \in {"empty", "unparsable"} ->
            [exc |-> Raised("JSONDecodeError", "Expecting value"),
             value |-> EmptyDict]
      [] file.kind = "empty_object" -> [exc |-> NoException, value |-> EmptyDict]
      [] file.kind = "weights" -> [exc |-> NoException, value |-> file.content]

\* open('data/chronic_condition_weights.json', 'w') and json.dump of the
\* defaults: the file cannot be created in a directory that does not exist
dump_default_weights(f) ==
    IF f.data_dir
    THEN [exc |-> NoException, value |-> default_weights,
          fs |-> [f EXCEPT !.weights_file = File("weights", default_weights)]]
    ELSE [exc |-> Raised("FileNotFoundError", "No such file or directory"),
          value |-> EmptyDict, fs |-> f]

\* load_weights() on file system f
load_weights(f) ==
    LET read == json_load(f.weights_file)
    IN  IF read.exc # NoException THEN dump_default_weights(f)
        ELSE IF DOMAIN read.value = {} THEN dump_default_weights(f)
        ELSE [exc |-> NoException, value |-> read.value, fs |-> f]

\* ------------------------------------------------------------ inputs
Calls == {"c1", "c2"}

Ages == {25, 35, 40, 50, 60, 65}

Regions == {"Turkey", "USA", "Mars"}

ChronicNames == {"diabetes", "Diabetes", "Flu"}

FamilyNames == {"cancer", "gout"}

\* lifestyle_score, the integers 0 to 10
Scores == 0..10

\* the sequences over S of length at most n
SeqsUpTo(S, n) == UNION {[1..k -> S] : k \in 0..n}

\* the days of the exercise slider
ExerciseDays == 0..7

FruitVeg == 0..MaxFruit

\* sleep_hours from 0 to 24, in units of 1/SleepUnit hour
SleepValues == 0..(24 * SleepUnit)

ScorerIdle ==
    [pc |-> "idle", exercise_days |-> 0, fruit_veg |-> 0, sleep |-> 0,
     score |-> 0]

\* the terms of the lists drawn with repeats: each name in two casings or
\* in both lists
ListedChronic == {"diabetes", "Diabetes", "Flu"}

ListedFamily == {"Cancer", "gout", "diabetes"}

\* the text boxes of the form, as the pieces between their commas
ChronicTexts ==
    { <<"">>, <<"diabetes", " Flu">>, <<" diabetes ", " ", "diabetes">> }

FamilyTexts == { <<"">>, <<"Cancer", "gout">> }

\* the lines the advice service answers with
RecLines ==
    {"- Walk daily", "Walk daily", "", "Check glucose. Source: CDC",
     "Rest. Source: WHO. Source: NIH"}

\* what client.models.generate_content does
Responses ==
    {[kind |-> "raises", lines |-> << >>], [kind |-> "no_text", lines |-> << >>]}
        \cup {[kind |-> "text", lines |-> l] : l \in SeqsUpTo(RecLines, MaxLines)}

\* what the file system does to the report
Disks == {"ok", "makedirs_fails", "build_fails"}

\* datetime.now() as "%Y%m%d_%H%M%S"
Stamps == {"20240101_120000", "20240101_120001"}

\* the integer ages, those below the form's minimum of 30 among them
AllAges == (-AgeSpan)..AgeSpan

HandlerIdle ==
    [pc |-> "idle", conditions |-> << >>, family |-> << >>,
     lifestyle_score |-> 0, response |-> [kind |-> "no_text", lines |-> << >>],
     disk |-> "ok", result |-> NoResult, predict_exc |-> "none",
     recommendations |-> << >>, report_exc |-> NoException,
     prediction_text |-> "", pdf_path |-> ""]

\* the file system once app.py has built its estimator from the defaults
StartedFs ==
    [data_dir |-> TRUE,
     costs_file |-> File("table", default_costs),
     weights_file |-> File("weights", default_weights),
     reports_dir |-> FALSE, reports |-> {}]

NothingLoaded == [pc |-> "idle", fn |-> "", before |-> StartedFs, exc |-> NoException, value |-> << >>]

BracketIdle == [pc |-> "idle", age |-> 0, age_group |-> ""]

\* a reference table other than the default one
CustomCosts ==
    << Row("Turkey", "30-39", 900), Row("Turkey", "30-39", 950),
       Row("Turkey", "60+", 2501) >>

CustomWeights ==
    [c \in {"diabetes", "Flu"} |-> IF c = "diabetes" THEN Dec2(50) ELSE Dec2(10)]

\* what data/health_costs_by_region.csv can be
CostFiles ==
    {Missing, File("empty", << >>), File("header_only", << >>),
     File("unparsable", << >>), File("table", default_costs),
     File("table", CustomCosts)}

\* what data/chronic_condition_weights.json can be
WeightFiles ==
    {Missing, File("empty", << >>), File("empty_object", << >>),
     File("unparsable", << >>), File("weights", default_weights),
     File("weights", CustomWeights)}

\* the file systems load_data.py can start on: no data directory, or one
\* with each of the two files in each of its conditions
FileSystems ==
    {[data_dir |-> FALSE, costs_file |-> Missing, weights_file |-> Missing,
      reports_dir |-> FALSE, reports |-> {}]}
    \cup {[data_dir |-> TRUE, costs_file |-> c, weights_file |-> w,
           reports_dir |-> FALSE, reports |-> {}] :
                c \in CostFiles, w \in WeightFiles}

\* ------------------------------------------------------------ actions
\* one whole call agent.predict(...), as the request handler makes it
PredictCall(c) ==
    /\ frames[c].pc = "idle"
    /\ \E age \in Ages, region \in Regions,
          chronic_conditions \in SeqsUpTo(ChronicNames, MaxConds),
          family_history \in SeqsUpTo(FamilyNames, MaxFamily),
          lifestyle_score \in Scores, insurance_status \in BOOLEAN :
            frames' = [frames EXCEPT ![c] =
                Predict(agent, age, region, chronic_conditions,
                        family_history, lifestyle_score, insurance_status)]
    /\ UNCHANGED <<agent, scorer, handler, fs, loaded, bracket>>

\* the caller drops the result (or the exception) of a finished call
Forget(c) ==
    /\ frames[c].pc \in {"done", "raised"}
    /\ frames' = [frames EXCEPT ![c] = IdleFrame]
    /\ UNCHANGED <<agent, scorer, handler, fs, loaded, bracket>>

\* a thread of a hosting service enters predict
Call(c) ==
    /\ frames[c].pc = "idle"
    /\ \E region \in {"Turkey", "Mars"},
          chronic_conditions \in {<< >>, <<"Diabetes", "Flu">>},
          insurance_status \in BOOLEAN :
            frames' = [frames EXCEPT ![c] =
                Entry(35, region, chronic_conditions, <<"cancer", "gout">>,
                      7, insurance_status)]
    /\ UNCHANGED <<agent, scorer, handler, fs, loaded, bracket>>

\* the base-cost statement keeping the rows it selected in self.cost_data
BaseCostNarrowsTable(c) ==
    /\ frames[c].pc = "base_cost"
    /\ frames' = [frames EXCEPT ![c] = BaseCostStep(agent, frames[c])]
    /\ LET rows == SelectSeq(agent.cost_data,
                     LAMBDA r : /\ r.region = frames[c].region
                                /\ r.age_group = GetAgeGroup(frames[c].age))
       IN  agent' = IF Len(rows) # 0 THEN [agent EXCEPT !.cost_data = rows]
                    ELSE agent
    /\ UNCHANGED <<scorer, handler, fs, loaded, bracket>>

BaseCost(c) ==
    /\ frames[c].pc = "base_cost"
    /\ frames' = [frames EXCEPT ![c] = BaseCostStep(agent, frames[c])]
    /\ UNCHANGED <<agent, scorer, handler, fs, loaded, bracket>>

ChronicLoop(c) ==
    /\ frames[c].pc = "chronic"
    /\ frames[c].i <= Len(frames[c].chronic_conditions)
    /\ frames' = [frames EXCEPT ![c] = ChronicIter(agent, frames[c])]
    /\ UNCHANGED <<agent, scorer, handler, fs, loaded, bracket>>

ChronicDone(c) ==
    /\ frames[c].pc = "chronic"
    /\ frames[c].i > Len(frames[c].chronic_conditions)
    /\ frames' = [frames EXCEPT ![c] = ChronicStep(agent, frames[c])]
    /\ UNCHANGED <<agent, scorer, handler, fs, loaded, bracket>>

FamilyLoop(c) ==
    /\ frames[c].pc = "family"
    /\ frames[c].i <= Len(frames[c].family_history)
    /\ frames' = [frames EXCEPT ![c] = FamilyIter(agent, frames[c])]
    /\ UNCHANGED <<agent, scorer, handler, fs, loaded, bracket>>

FamilyDone(c) ==
    /\ frames[c].pc = "family"
    /\ frames[c].i > Len(frames[c].family_history)
    /\ frames' = [frames EXCEPT ![c] = FamilyStep(agent, frames[c])]
    /\ UNCHANGED <<agent, scorer, handler, fs, loaded, bracket>>

Lifestyle(c) ==
    /\ frames[c].pc = "lifestyle"
    /\ frames' = [frames EXCEPT ![c] = LifestyleStep(agent, frames[c])]
    /\ UNCHANGED <<agent, scorer, handler, fs, loaded, bracket>>

TotalRisk(c) ==
    /\ frames[c].pc = "total"
    /\ frames' = [frames EXCEPT ![c] = TotalRiskStep(agent, frames[c])]
    /\ UNCHANGED <<agent, scorer, handler, fs, loaded, bracket>>

PreCost(c) ==
    /\ frames[c].pc = "pre_cost"
    /\ frames' = [frames EXCEPT ![c] = PreCostStep(agent, frames[c])]
    /\ UNCHANGED <<agent, scorer, handler, fs, loaded, bracket>>

Insurance(c) ==
    /\ frames[c].pc = "insurance"
    /\ frames' = [frames EXCEPT ![c] = InsuranceStep(agent, frames[c])]
    /\ UNCHANGED <<agent, scorer, handler, fs, loaded, bracket>>

Return(c) ==
    /\ frames[c].pc = "return"
    /\ frames' = [frames EXCEPT ![c] = ReturnStep(agent, frames[c])]
    /\ UNCHANGED <<agent, scorer, handler, fs, loaded, bracket>>

\* calculate_lifestyle_score(exercise_days, fruit_veg, sleep_hours) returns
Score ==
    /\ scorer.pc = "called"
    /\ scorer' = [scorer EXCEPT
            !.score = calculate_lifestyle_score(scorer.exercise_days,
                            scorer.fruit_veg, scorer.sleep),
            !.pc = "returned"]
    /\ UNCHANGED <<agent, frames, handler, fs, loaded, bracket>>

\* ------------------------------------------------------------ specifications
\* one whole call agent.predict(...) on lists with repeated and mixed terms,
\* as the handler's split of the text boxes makes them
PredictLists(c) ==
    /\ frames[c].pc = "idle"
    /\ \E chronic_conditions \in SeqsUpTo(ListedChronic, MaxListed),
          family_history \in SeqsUpTo(ListedFamily, MaxListed),
          lifestyle_score \in {4, 10} :
            frames' = [frames EXCEPT ![c] =
                Predict(agent, 35, "Turkey", chronic_conditions,
                        family_history, lifestyle_score, FALSE)]
    /\ UNCHANGED <<agent, scorer, handler, fs, loaded, bracket>>

\* one call self._get_age_group(age)
AgeGroup ==
    /\ bracket.pc = "called"
    /\ bracket' = [bracket EXCEPT !.pc = "returned",
                                  !.age_group = GetAgeGroup(bracket.age)]
    /\ UNCHANGED <<agent, frames, scorer, handler, fs, loaded>>

\* one whole request predict_health_cost(...) of the form
PredictHealthCost ==
    /\ handler.pc = "idle"
    /\ \E age \in {35, 65}, region \in {"Turkey", "Mars"},
          chronic_conditions \in ChronicTexts, family_history \in FamilyTexts,
          exercise_days \in {0, 5}, insurance_status \in BOOLEAN,
          response \in Responses, disk \in Disks, stamp \in Stamps :
            /\ disk = "makedirs_fails" => ~fs.reports_dir
            /\ handler' = predict_health_cost(agent, age, region,
                    chronic_conditions, family_history, exercise_days, 5,
                    8 * SleepUnit, insurance_status, response, disk, stamp)
            /\ fs' = [fs EXCEPT
                    !.reports_dir = @ \/ disk # "makedirs_fails",
                    !.reports = IF handler'.pdf_path # ""
                                THEN @ \cup {handler'.pdf_path} ELSE @]
    /\ UNCHANGED <<agent, frames, scorer, loaded, bracket>>

\* the form shows the returned pair and is ready for the next request
Shown ==
    /\ handler.pc = "returned"
    /\ handler' = HandlerIdle
    /\ UNCHANGED <<agent, frames, scorer, fs, loaded, bracket>>

\* one call load_costs()
LoadCosts ==
    LET r == load_costs(fs)
    IN  /\ loaded' = [pc |-> "returned", fn |-> "load_costs", before |-> fs,
                      exc |-> r.exc, value |-> r.value]
        /\ fs' = r.fs
        /\ UNCHANGED <<agent, frames, scorer, handler, bracket>>

\* one call load_weights()
LoadWeights ==
    LET r == load_weights(fs)
    IN  /\ loaded' = [pc |-> "returned", fn |-> "load_weights", before |-> fs,
                      exc |-> r.exc, value |-> r.value]
        /\ fs' = r.fs
        /\ UNCHANGED <<agent, frames, scorer, handler, bracket>>

\* app.py at import: agent = HealthCostPredictorAgent(load_costs(),
\* load_weights()), the arguments evaluated left to right
Construct ==
    LET costs == load_costs(fs)
        weights == load_weights(costs.fs)
    IN  IF costs.exc # NoException
        THEN /\ loaded' = [pc |-> "returned", fn |-> "app", before |-> fs,
                           exc |-> costs.exc, value |-> << >>]
             /\ fs' = costs.fs
             /\ UNCHANGED <<agent, frames, scorer, handler, bracket>>
        ELSE IF weights.exc # NoException
        THEN /\ loaded' = [pc |-> "returned", fn |-> "app", before |-> fs,
                           exc |-> weights.exc, value |-> << >>]
             /\ fs' = weights.fs
             /\ UNCHANGED <<agent, frames, scorer, handler, bracket>>
        ELSE /\ loaded' = [pc |-> "returned", fn |-> "app", before |-> fs,
                           exc |-> NoException, value |-> << >>]
             /\ fs' = weights.fs
             /\ agent' = HealthCostPredictorAgent(costs.value, weights.value,
                            EmptyDict, EmptyDict, "", "", DefaultDiscountRate)
             /\ UNCHANGED <<frames, scorer, handler, bracket>>

Init ==
    /\ agent \in Agents
    /\ frames = [c \in Calls |-> IdleFrame]
    /\ scorer = ScorerIdle
    /\ handler = HandlerIdle
    /\ fs = StartedFs
    /\ loaded = NothingLoaded
    /\ bracket = BracketIdle

\* one caller, one call of predict after the other
Next == PredictCall("c1") \/ Forget("c1")

Spec == Init /\ [][Next]_vars

\* several callers inside predict on the same instance, statement by statement
NextConc ==
    \E c \in Calls :
        \/ Call(c)
        \/ BaseCost(c)
        \/ ChronicLoop(c)
        \/ ChronicDone(c)
        \/ FamilyLoop(c)
        \/ FamilyDone(c)
        \/ Lifestyle(c)
        \/ TotalRisk(c)
        \/ PreCost(c)
        \/ Insurance(c)
        \/ Return(c)
        \/ Forget(c)

SpecConc == Init /\ [][NextConc]_vars

\* one caller whose lists repeat and mix their terms
NextLists == PredictLists("c1") \/ Forget("c1")

SpecLists == Init /\ [][NextLists]_vars

\* _get_age_group on each integer age
InitAge ==
    /\ agent = DefaultAgent
    /\ frames = [c \in Calls |-> IdleFrame]
    /\ scorer = ScorerIdle
    /\ handler = HandlerIdle
    /\ fs = StartedFs
    /\ loaded = NothingLoaded
    /\ \E age \in AllAges :
          bracket = [pc |-> "called", age |-> age, age_group |-> ""]

NextAge == AgeGroup

SpecAge == InitAge /\ [][NextAge]_vars

\* the request handler with its two collaborators
NextHandler == PredictHealthCost \/ Shown

SpecHandler == Init /\ [][NextHandler]_vars

\* load_data.py and the construction of the estimator, from every state of
\* the data directory
InitLoad ==
    /\ agent = DefaultAgent
    /\ frames = [c \in Calls |-> IdleFrame]
    /\ scorer = ScorerIdle
    /\ handler = HandlerIdle
    /\ fs \in FileSystems
    /\ loaded = NothingLoaded
    /\ bracket = BracketIdle

NextLoad == LoadCosts \/ LoadWeights \/ Construct

SpecLoad == InitLoad /\ [][NextLoad]_vars

\* the lifestyle scorer on each input of its sliders
InitScore ==
    /\ agent = DefaultAgent
    /\ frames = [c \in Calls |-> IdleFrame]
    /\ \E e \in ExerciseDays, v \in FruitVeg, s \in SleepValues :
          scorer = [pc |-> "called", exercise_days |-> e, fruit_veg |-> v,
                    sleep |-> s, score |-> 0]
    /\ handler = HandlerIdle
    /\ fs = StartedFs
    /\ loaded = NothingLoaded
    /\ bracket = BracketIdle

NextScore == Score

SpecScore == InitScore /\ [][NextScore]_vars

\* ------------------------------------------------------------ claims
Done(c) == frames[c].pc = "done"

\* the arguments a frame was entered with
Args(f) ==
    <<f.age, f.region, f.chronic_conditions, f.family_history,
      f.lifestyle_score, f.insurance_status>>

\* x has at most two decimal places
IsCents(x) == 100 % x.d = 0

\* the value of the last step of a details sequence
LastValue(details) == details[Len(details)].value

\* the call of frame f repeated alone with insurance_status = False
Uninsured(f) ==
    Predict(agent, f.age, f.region, f.chronic_conditions, f.family_history,
            f.lifestyle_score, FALSE)

\* C1 as stated: the final_cost returned with insurance equals
\* (1 - insurance_discount_rate) times the final_cost returned without it on
\* the same other inputs, both being the rounded values predict returns.
C1_RoundedCostsInRatio ==
    \A c \in Calls :
        Done(c) /\ frames[c].insurance_status =>
            frames[c].result.final_cost =
                RatMul(RatSub(One, agent.insurance_discount_rate),
                       Uninsured(frames[c]).result.final_cost)

\* C1 as amended: the final_cost returned with insurance equals
\* (1 - insurance_discount_rate) times the unrounded cost of the call without
\* insurance (the value of its "Insurance Discount" step), rounded to two
\* decimals; the final_cost returned without insurance is that unrounded cost
\* rounded to two decimals.
C1_DiscountBeforeRounding ==
    \A c \in Calls :
        Done(c) =>
            LET u == LastValue(Uninsured(frames[c]).result.details)
                final_cost == frames[c].result.final_cost
            IN  /\ IsCents(final_cost)
                /\ frames[c].insurance_status =>
                     final_cost =
                        Round2(RatMul(
                            RatSub(One, agent.insurance_discount_rate), u))
                /\ ~frames[c].insurance_status => final_cost = Round2(u)

\* an insured call has returned whose uninsured cost is changed by rounding
C1_Witness ==
    \E c \in Calls :
        /\ Done(c) /\ frames[c].insurance_status
        /\ ~IsCents(LastValue(Uninsured(frames[c]).result.details))
        /\ frames[c].result.final_cost # Zero

RECURSIVE TableTotal(_, _)
\* the sum of the base_cost of the first k rows of a table
TableTotal(table, k) ==
    IF k = 0 THEN 0 ELSE table[k].base_cost + TableTotal(table, k - 1)

\* the indices of the rows of the cost table for a region and an age bracket
RowsFor(region, age_group) ==
    {k \in 1..Len(agent.cost_data) :
        /\ agent.cost_data[k].region = region
        /\ agent.cost_data[k].age_group = age_group}

\* the smallest element of a non-empty set of numbers
Least(S) == CHOOSE k \in S : \A j \in S : k <= j

\* C2: when the cost table has no row for the (region, age bracket) pair of
\* the call, the base cost used and recorded in the "Base Cost" step is the
\* unweighted mean of all base_cost values of the table; when there is a row,
\* it is that row's base_cost (the first such row's).
C2_BaseCostOrMean ==
    \A c \in Calls :
        Done(c) =>
            LET f == frames[c]
                rows == RowsFor(f.region, f.age_group)
                first == f.result.details[1]
            IN  /\ first.step = "Base Cost"
                /\ first.value = f.base_cost
                /\ rows = {} =>
                     first.value.n * Len(agent.cost_data) =
                        TableTotal(agent.cost_data, Len(agent.cost_data))
                            * first.value.d
                /\ rows # {} =>
                     first.value =
                        RatInt(agent.cost_data[Least(rows)].base_cost)

\* a call has returned whose (region, bracket) pair has no row, with a mean
\* that is no base_cost of the table
C2_Witness ==
    \E c \in Calls :
        /\ Done(c)
        /\ RowsFor(frames[c].region, frames[c].age_group) = {}
        /\ \A k \in 1..Len(agent.cost_data) :
              frames[c].result.details[1].value
                  # RatInt(agent.cost_data[k].base_cost)

\* a condition is known when its lower-cased name is a key of the weights
Known(condition) == Lower(condition) \in DOMAIN agent.weights

RECURSIVE KnownWeights(_, _)
\* the sum of the table weights of the known conditions among the first k
KnownWeights(conditions, k) ==
    IF k = 0 THEN Zero
    ELSE IF Known(conditions[k])
         THEN RatAdd(KnownWeights(conditions, k - 1),
                     agent.weights[Lower(conditions[k])].value)
         ELSE KnownWeights(conditions, k - 1)

\* C3: a condition that is not in the weights table contributes 0 to
\* chronic_risk, with source 'Data not available', and the conditions of the
\* same call that are in the table contribute their full weight: chronic_risk
\* is the sum of the table weights of the known conditions of the input list.
C3_UnknownConditionIsZero ==
    \A c \in Calls :
        Done(c) =>
            LET f == frames[c]
                n == Len(f.chronic_conditions)
            IN  /\ f.chronic_risk = KnownWeights(f.chronic_conditions, n)
                /\ Len(f.chronic_breakdown) = n
                /\ \A k \in 1..n :
                      ~Known(f.chronic_conditions[k]) =>
                          f.chronic_breakdown[k] =
                              <<f.chronic_conditions[k], Zero,
                                "Data not available">>
                /\ n > 0 =>
                     /\ f.result.details[2].step = "Chronic Conditions"
                     /\ f.result.details[2].value =
                            KnownWeights(f.chronic_conditions, n)

\* a call has returned whose list holds an unknown condition before a known one
C3_Witness ==
    \E c \in Calls :
        /\ Done(c)
        /\ Len(frames[c].chronic_conditions) = 2
        /\ ~Known(frames[c].chronic_conditions[1])
        /\ Known(frames[c].chronic_conditions[2])
        /\ frames[c].chronic_risk # Zero

\* the step names of a details sequence
StepNames(details) == [k \in 1..Len(details) |-> details[k].step]

\* the positions of a step name in a sequence of names
Positions(names, name) == {k \in 1..Len(names) : names[k] = name}

\* C4: the details of every call hold "Lifestyle Score", "Total Risk Factor",
\* "Cost Before Insurance" and "Insurance Discount" exactly once each, in that
\* order, whether or not the optional steps are there; "Base Cost" is the
\* first step and "Insurance Discount" the last.
C4_FixedStepsInOrder ==
    \A c \in Calls :
        Done(c) =>
            LET names == StepNames(frames[c].result.details)
                fixed == <<"Lifestyle Score", "Total Risk Factor",
                           "Cost Before Insurance", "Insurance Discount">>
            IN  /\ \A k \in 1..4 : Cardinality(Positions(names, fixed[k])) = 1
                /\ \A k \in 1..3 :
                      \A p \in Positions(names, fixed[k]),
                         q \in Positions(names, fixed[k + 1]) : p < q
                /\ names[1] = "Base Cost"
                /\ Positions(names, "Base Cost") = {1}
                /\ names[Len(names)] = "Insurance Discount"

\* a call has returned with both optional steps, and with no lifestyle risk
C4_Witness ==
    \E c \in Calls :
        /\ Done(c)
        /\ frames[c].lifestyle_score = 10
        /\ StepNames(frames[c].result.details) =
              <<"Base Cost", "Chronic Conditions", "Family History",
                "Lifestyle Score", "Total Risk Factor",
                "Cost Before Insurance", "Insurance Discount">>

RECURSIVE TableSum(_, _, _)
\* the sum of table[name.lower()] over those of the first k names that are keys
TableSum(names, table, k) ==
    IF k = 0 THEN Zero
    ELSE IF Lower(names[k]) \in DOMAIN table
         THEN RatAdd(TableSum(names, table, k - 1), table[Lower(names[k])])
         ELSE TableSum(names, table, k - 1)

\* the base cost of the built-in table for a region and a bracket: the row's,
\* or the mean of the sixteen rows, 2484.375
DefaultBase(region, age_group) ==
    IF \E k \in 1..Len(default_costs) :
            /\ default_costs[k].region = region
            /\ default_costs[k].age_group = age_group
    THEN LET k == CHOOSE j \in 1..Len(default_costs) :
                    /\ default_costs[j].region = region
                    /\ default_costs[j].age_group = age_group
         IN  RatInt(default_costs[k].base_cost)
    ELSE Rat(2484375, 1000)

\* C5: with the built-in tables and the discount rate 0.30, final_cost is
\* round(base_cost * (1 + sum of chronic weights + sum of matched family risks
\* + (10 - lifestyle_score) * 0.03) * (0.70 if insured, else 1), 2);
\* predict(35, "Turkey", ["diabetes"], [], 7, True) returns 1148.00 and
\* predict(65, "USA", [], [], 10, False) returns 6000.00.
C5_DefaultTablesFormula ==
    \A c \in Calls :
        Done(c) /\ agent = DefaultAgent =>
            LET f == frames[c]
                risk ==
                    RatAdd(RatAdd(
                        TableSum(f.chronic_conditions, default_weights,
                                 Len(f.chronic_conditions)),
                        TableSum(f.family_history, DefaultFamilyRisk,
                                 Len(f.family_history))),
                        Rat((10 - f.lifestyle_score) * 3, 100))
                cost == RatMul(RatMul(DefaultBase(f.region, f.age_group),
                                      RatAdd(One, risk)),
                               IF f.insurance_status THEN Rat(70, 100)
                               ELSE One)
            IN  /\ f.result.final_cost = Round2(cost)
                /\ Args(f) = <<35, "Turkey", <<"diabetes">>, << >>, 7, TRUE>>
                     => f.result.final_cost = RatInt(1148)
                /\ Args(f) = <<65, "USA", << >>, << >>, 10, FALSE>>
                     => f.result.final_cost = RatInt(6000)

\* the first scenario has returned from the estimator of the built-in tables
C5_Witness ==
    \E c \in Calls :
        /\ Done(c) /\ agent = DefaultAgent
        /\ Args(frames[c]) = <<35, "Turkey", <<"diabetes">>, << >>, 7, TRUE>>
        /\ frames[c].result.final_cost = RatInt(1148)

Returned == scorer.pc = "returned"

\* C6 as stated: the score never decreases when one of exercise_days,
\* fruit_veg or sleep_hours is increased and the other two are held.
C6_MonotoneInEachArgument ==
    Returned =>
        /\ \A e \in ExerciseDays :
              e >= scorer.exercise_days =>
                calculate_lifestyle_score(e, scorer.fruit_veg, scorer.sleep)
                    >= scorer.score
        /\ \A v \in FruitVeg :
              v >= scorer.fruit_veg =>
                calculate_lifestyle_score(scorer.exercise_days, v, scorer.sleep)
                    >= scorer.score
        /\ \A s \in SleepValues :
              s >= scorer.sleep =>
                calculate_lifestyle_score(scorer.exercise_days,
                                          scorer.fruit_veg, s)
                    >= scorer.score

\* C6 as amended: the score never decreases when exercise_days or fruit_veg
\* is increased and the other two arguments are held; when sleep_hours is
\* increased it never decreases as long as sleep_hours stays at most 9.
C6_MonotoneExerciseFruitSleepTo9 ==
    Returned =>
        /\ \A e \in ExerciseDays :
              e >= scorer.exercise_days =>
                calculate_lifestyle_score(e, scorer.fruit_veg, scorer.sleep)
                    >= scorer.score
        /\ \A v \in FruitVeg :
              v >= scorer.fruit_veg =>
                calculate_lifestyle_score(scorer.exercise_days, v, scorer.sleep)
                    >= scorer.score
        /\ \A s \in SleepValues :
              s >= scorer.sleep /\ s <= 9 * SleepUnit =>
                calculate_lifestyle_score(scorer.exercise_days,
                                          scorer.fruit_veg, s)
                    >= scorer.score

\* the scorer has returned a score that a larger exercise_days, a larger
\* fruit_veg and a larger sleep_hours up to 9 each raise
C6_Witness ==
    /\ Returned
    /\ calculate_lifestyle_score(scorer.exercise_days + 1, scorer.fruit_veg,
                                 scorer.sleep) > scorer.score
    /\ calculate_lifestyle_score(scorer.exercise_days, scorer.fruit_veg + 1,
                                 scorer.sleep) > scorer.score
    /\ scorer.sleep < 9 * SleepUnit
    /\ calculate_lifestyle_score(scorer.exercise_days, scorer.fruit_veg,
                                 scorer.sleep + 1) > scorer.score

\* the points of the exercise and nutrition axes: 3/2/1/0 for >=5 / >=3 / >=1 / 0
AxisPoints(x) ==
    CASE x >= 5 -> 3
      [] x \in {3, 4} -> 2
      [] x \in {1, 2} -> 1
      [] x = 0 -> 0

\* the points of the sleep axis: 4 in [7,9], 2 in [6,7) and (9,10], else 0
SleepPoints(s) ==
    CASE s \in (7 * SleepUnit)..(9 * SleepUnit) -> 4
      [] s \in (6 * SleepUnit)..(7 * SleepUnit - 1) -> 2
      [] s \in (9 * SleepUnit + 1)..(10 * SleepUnit) -> 2
      [] OTHER -> 0

\* C7: the score is an integer in 0..10 equal to min(E + N + S, 10); it is 10
\* whenever exercise_days >= 5, fruit_veg >= 5 and sleep is in [7,9], and 0
\* at (0, 0, 0).
C7_ScoreIsClampedSum ==
    Returned =>
        LET sum == AxisPoints(scorer.exercise_days)
                     + AxisPoints(scorer.fruit_veg) + SleepPoints(scorer.sleep)
        IN  /\ scorer.score \in 0..10
            /\ scorer.score = IF sum <= 10 THEN sum ELSE 10
            /\ ( /\ scorer.exercise_days >= 5 /\ scorer.fruit_veg >= 5
                 /\ 7 * SleepUnit <= scorer.sleep
                 /\ scorer.sleep <= 9 * SleepUnit ) => scorer.score = 10
            /\ ( /\ scorer.exercise_days = 0 /\ scorer.fruit_veg = 0
                 /\ scorer.sleep = 0 ) => scorer.score = 0

\* the scorer has returned 10 for five days, five portions and 7 hours
C7_Witness ==
    /\ Returned
    /\ scorer.exercise_days = 5 /\ scorer.fruit_veg = 5
    /\ scorer.sleep = 7 * SleepUnit
    /\ scorer.score = 10

\* C8: two calls with identical arguments on the same estimator return the
\* same final_cost and the same details, whatever calls were made before.
C8_SameArgsSameResult ==
    \A c, d \in Calls :
        Done(c) /\ Done(d) /\ Args(frames[c]) = Args(frames[d]) =>
            frames[c].result = frames[d].result

\* two calls with the same arguments have both returned, on a fallback base
C8_Witness ==
    /\ Done("c1") /\ Done("c2")
    /\ Args(frames["c1"]) = Args(frames["c2"])
    /\ frames["c1"].region = "Mars"
    /\ Len(frames["c1"].result.details) = 7

\* C9: predict returns for every input, with no exception: a call that was
\* made has returned a result with a two-decimal final_cost and the details
\* it accumulated; a miss of the region/bracket, of a condition or of a family
\* term leaves the mean, a zero weight or no entry, not an error.
C9_PredictIsTotal ==
    \A c \in Calls :
        LET f == frames[c]
        IN  /\ f.pc \in {"idle", "done"}
            /\ f.exc = "none"
            /\ Done(c) =>
                 /\ IsCents(f.result.final_cost)
                 /\ f.result.details = f.details
                 /\ Len(f.result.details) >= 5
                 /\ RowsFor(f.region, f.age_group) = {} =>
                        f.base_cost = MeanBaseCost(agent.cost_data)
                 /\ \A k \in 1..Len(f.chronic_conditions) :
                        ~Known(f.chronic_conditions[k]) =>
                            f.chronic_breakdown[k][2] = Zero
                 /\ \A k \in 1..Len(f.family_breakdown) :
                        Lower(f.family_breakdown[k][1])
                            \in DOMAIN agent.family_history_risk

\* a call has returned in which all three lookups missed
C9_Witness ==
    \E c \in Calls :
        /\ Done(c)
        /\ RowsFor(frames[c].region, frames[c].age_group) = {}
        /\ \E k \in 1..Len(frames[c].chronic_conditions) :
              ~Known(frames[c].chronic_conditions[k])
        /\ \E k \in 1..Len(frames[c].family_history) :
              Lower(frames[c].family_history[k])
                  \notin DOMAIN agent.family_history_risk
        /\ Len(frames[c].result.details) >= 5

\* the result of the call of frame f run alone on the estimator self
Alone(self, f) ==
    Predict(self, f.age, f.region, f.chronic_conditions, f.family_history,
            f.lifestyle_score, f.insurance_status).result

\* C10: no step of predict changes the estimator, and under any interleaving
\* of calls on one instance each call returns the result it returns alone.
C10_InterleavedAsAlone ==
    [][ /\ agent' = agent
        /\ \A c \in Calls :
              frames'[c].pc = "done" =>
                  frames'[c].result = Alone(agent, frames'[c]) ]_vars

\* two calls with different arguments are both at their last statement
C10_Witness ==
    /\ frames["c1"].pc = "return" /\ frames["c2"].pc = "return"
    /\ frames["c1"].region # frames["c2"].region
    /\ frames["c1"].chronic_conditions # frames["c2"].chronic_conditions

\* a request whose call of predict returned
Predicted == handler.pc = "returned" /\ handler.predict_exc = "none"

\* C11: a failure of advice generation or of report rendering is caught by
\* the collaborator and never reaches the request handler: after a predict
\* that returned, no exception of a collaborator is seen by the handler and
\* the text it returns is the one with the computed cost and the steps,
\* whatever the advice service and the file system did.
C11_CollaboratorFailureStaysInside ==
    Predicted =>
        /\ handler.report_exc = NoException
        /\ handler.prediction_text =
                PredictionText(handler.result.final_cost,
                               handler.result.details,
                               generate_recommendations(handler.response))

\* the reference file is not available: missing, empty or unparsable
NoCosts(f) == f.costs_file.kind # "table"

NoWeights(f) == f.weights_file.kind # "weights"

\* C12: with no reference data available (the data directory or a data file
\* missing, empty or unparsable) load_costs returns the built-in 16-row table
\* and load_weights the built-in 8-condition weights, each call on its own
\* from any state of the file system, and app.py builds the default
\* estimator when neither file is available.
C12_DefaultsWhenNoData ==
    loaded.pc = "returned" =>
        /\ loaded.fn = "load_costs" /\ NoCosts(loaded.before) =>
                loaded.exc = NoException /\ loaded.value = default_costs
        /\ loaded.fn = "load_weights" /\ NoWeights(loaded.before) =>
                loaded.exc = NoException /\ loaded.value = default_weights
        /\ loaded.fn = "app" /\ NoCosts(loaded.before)
                /\ NoWeights(loaded.before) =>
                loaded.exc = NoException /\ agent = DefaultAgent

\* C13: predict looks chronic conditions up without regard to letter case:
\* an input condition that is, in some letter-casing, a name of the weights
\* table the estimator was built with contributes that name's weight and
\* source, never the zero weight of 'Data not available'.
C13_LookupIgnoresCase ==
    \A c \in Calls :
        Done(c) =>
            LET f == frames[c]
            IN  \A k \in 1..Len(f.chronic_conditions) :
                    \A name \in DOMAIN agent.weights :
                        Lower(f.chronic_conditions[k]) = Lower(name) =>
                            f.chronic_breakdown[k] =
                                <<f.chronic_conditions[k],
                                  agent.weights[name].value,
                                  agent.weights[name].source>>

\* the value of the step called name in a details sequence, 0 if there is none
StepValue(details, name) ==
    IF Positions(StepNames(details), name) = {} THEN Zero
    ELSE details[CHOOSE k \in Positions(StepNames(details), name) : TRUE].value

\* C14: the value of "Total Risk Factor" is chronic_risk + family_risk +
\* lifestyle_risk, the sum of the values of the "Chronic Conditions" step (0
\* if absent), the "Family History" step (0 if absent) and the "Lifestyle
\* Score" step; lifestyle_risk is (10 - lifestyle_score) x 0.03, between 0 and
\* 0.30 for scores 0 to 10; and the value of "Cost Before Insurance" is the
\* value of "Base Cost" x (1 + the value of "Total Risk Factor").
C14_TotalRiskIsSumOfSteps ==
    \A c \in Calls :
        Done(c) =>
            LET f == frames[c]
                d == f.result.details
                lifestyle == StepValue(d, "Lifestyle Score")
                total == StepValue(d, "Total Risk Factor")
            IN  /\ total = RatAdd(RatAdd(f.chronic_risk, f.family_risk),
                                  f.lifestyle_risk)
                /\ total = RatAdd(RatAdd(StepValue(d, "Chronic Conditions"),
                                         StepValue(d, "Family History")),
                                  lifestyle)
                /\ lifestyle = Rat((10 - f.lifestyle_score) * 3, 100)
                /\ 0 <= lifestyle.n /\ lifestyle.n * 100 <= 30 * lifestyle.d
                /\ StepValue(d, "Cost Before Insurance") =
                        RatMul(StepValue(d, "Base Cost"), RatAdd(One, total))

\* a call has returned with a chronic, a family and a lifestyle risk, none 0
C14_Witness ==
    \E c \in Calls :
        /\ Done(c)
        /\ StepValue(frames[c].result.details, "Chronic Conditions") # Zero
        /\ StepValue(frames[c].result.details, "Family History") # Zero
        /\ StepValue(frames[c].result.details, "Lifestyle Score") # Zero
        /\ StepValue(frames[c].result.details, "Base Cost") # Zero

\* C15: details has between 5 and 7 steps, and holds a "Chronic Conditions"
\* step (exactly one, right after "Base Cost") if and only if the
\* chronic_conditions input is not empty, also when every listed condition is
\* unknown: the step is then there with value 0.
C15_ChronicStepIffListed ==
    \A c \in Calls :
        Done(c) =>
            LET f == frames[c]
                names == StepNames(f.result.details)
                at == Positions(names, "Chronic Conditions")
            IN  /\ Len(names) \in 5..7
                /\ Len(f.chronic_conditions) = 0 => at = {}
                /\ Len(f.chronic_conditions) > 0 =>
                     /\ at = {2}
                     /\ names[1] = "Base Cost"
                /\ (Len(f.chronic_conditions) > 0
                        /\ \A k \in 1..Len(f.chronic_conditions) :
                              Lower(f.chronic_conditions[k])
                                    \notin DOMAIN agent.weights) =>
                     f.result.details[2].value = Zero

\* a call has returned that listed unknown conditions only; its details have
\* the "Chronic Conditions" step
C15_Witness ==
    \E c \in Calls :
        /\ Done(c)
        /\ Len(frames[c].chronic_conditions) = 2
        /\ \A k \in 1..2 :
              Lower(frames[c].chronic_conditions[k]) \notin DOMAIN agent.weights
        /\ frames[c].result.details[2].step = "Chronic Conditions"
        /\ Len(frames[c].result.details) = 6

\* the terms of a family_history list that are keys of the family risk table
Matched(family_history) ==
    SelectSeq(family_history,
              LAMBDA t : Lower(t) \in DOMAIN agent.family_history_risk)

\* the breakdown entry "term: +risk (Source: source)" of a matched term
FamilyEntry(t) ==
    t \o ": +" \o Fmt2f(agent.family_history_risk[Lower(t)]) \o " (Source: "
      \o DictGet(agent.chronic_condition_sources, Lower(t),
                 "General medical research data") \o ")"

\* C16: details holds a "Family History" step if and only if at least one
\* family_history term, lower-cased, is a key of the family risk table; its
\* value is the sum of the risks of the matched terms only, and its
\* description and source list the matched terms only, in input order; terms
\* that are not keys add 0, and a list of such terms only gives no step.
C16_FamilyStepOfMatchedTerms ==
    \A c \in Calls :
        Done(c) =>
            LET f == frames[c]
                d == f.result.details
                at == Positions(StepNames(d), "Family History")
                matched == Matched(f.family_history)
            IN  /\ (at # {}) <=> (Len(matched) > 0)
                /\ Cardinality(at) <= 1
                /\ f.family_risk =
                      TableSum(f.family_history, agent.family_history_risk,
                               Len(f.family_history))
                /\ \A p \in at :
                      /\ d[p].value = f.family_risk
                      /\ d[p].desc =
                            Join(", ", [k \in 1..Len(matched) |->
                                            FamilyEntry(matched[k])])
                      /\ d[p].source =
                            Join("; ", [k \in 1..Len(matched) |->
                                DictGet(agent.chronic_condition_sources,
                                        Lower(matched[k]),
                                        "General medical research data")])

\* a call has returned whose family_history holds a term that is no key
\* before one that is a key in another letter case
C16_Witness ==
    \E c \in Calls :
        /\ Done(c)
        /\ frames[c].family_history = <<"gout", "Cancer">>
        /\ Matched(frames[c].family_history) = <<"Cancer">>
        /\ StepValue(frames[c].result.details, "Family History") = Dec2(15)

\* the four bracket labels, in the order of their ages
BracketRank(label) ==
    CASE label = "30-39" -> 1
      [] label = "40-49" -> 2
      [] label = "50-59" -> 3
      [] label = "60+" -> 4
      [] OTHER -> 0

\* C17: _get_age_group maps every integer age to exactly one of the four
\* labels: [30,40) to "30-39", [40,50) to "40-49", [50,60) to "50-59" and
\* [60,..) to "60+"; it is monotone in age; the boundary ages 40, 50 and 60
\* are in the upper bracket; ages below 30 are put in "30-39".
C17_AgeBracketsPartition ==
    bracket.pc = "returned" =>
        LET age == bracket.age
            label == bracket.age_group
        IN  /\ BracketRank(label) \in 1..4
            /\ (30 <= age /\ age < 40) => label = "30-39"
            /\ (40 <= age /\ age < 50) => label = "40-49"
            /\ (50 <= age /\ age < 60) => label = "50-59"
            /\ 60 <= age => label = "60+"
            /\ age < 30 => label = "30-39"
            /\ \A younger \in AllAges :
                  younger <= age =>
                      BracketRank(GetAgeGroup(younger)) <= BracketRank(label)

\* the bracket of the boundary age 40 has been returned
C17_Witness ==
    /\ bracket.pc = "returned"
    /\ bracket.age = 40
    /\ bracket.age_group = "40-49"

\* the number of times term x is listed
Occurrences(list, x) == Cardinality({k \in 1..Len(list) : list[k] = x})

\* the terms of a list
Terms(list) == {list[k] : k \in 1..Len(list)}

\* table[x.lower()], 0 when it is no key
RiskOf(table, x) == DictGet(table, Lower(x), Zero)

RECURSIVE OccurrenceSum(_, _, _)
\* the sum over the terms x of S of (times x is listed) x (risk of x)
OccurrenceSum(S, list, table) ==
    IF S = {} THEN Zero
    ELSE LET x == CHOOSE y \in S : TRUE
         IN  RatAdd(RatMul(RatInt(Occurrences(list, x)), RiskOf(table, x)),
                    OccurrenceSum(S \ {x}, list, table))

\* the weights of the estimator as a table of numbers
WeightValues == [name \in DOMAIN agent.weights |-> agent.weights[name].value]

\* C18: predict sums risk per occurrence: a chronic condition listed k times
\* adds k x its weight and has k entries in the breakdown of the step; a
\* recognised family term listed k times adds k x its risk; a condition in
\* both lists adds both its chronic weight and its family risk to the total.
C18_RiskPerOccurrence ==
    \A c \in Calls :
        Done(c) =>
            LET f == frames[c]
                cc == f.chronic_conditions
                fh == f.family_history
            IN  /\ f.chronic_risk = OccurrenceSum(Terms(cc), cc, WeightValues)
                /\ \A x \in Terms(cc) :
                      /\ Occurrences([j \in 1..Len(f.chronic_breakdown) |->
                                        f.chronic_breakdown[j][1]], x)
                            = Occurrences(cc, x)
                      /\ \A j \in 1..Len(f.chronic_breakdown) :
                            f.chronic_breakdown[j][1] = x =>
                                f.chronic_breakdown[j][2] =
                                    RiskOf(WeightValues, x)
                /\ Len(cc) > 0 =>
                      f.result.details[2].desc =
                            BreakdownDesc(f.chronic_breakdown)
                /\ f.family_risk =
                      OccurrenceSum(Terms(fh), fh, agent.family_history_risk)
                /\ StepValue(f.result.details, "Total Risk Factor") =
                      RatAdd(RatAdd(
                                OccurrenceSum(Terms(cc), cc, WeightValues),
                                OccurrenceSum(Terms(fh), fh,
                                              agent.family_history_risk)),
                             f.lifestyle_risk)

\* a call of the default estimator has returned that listed diabetes three
\* times as a chronic condition and twice as family history
C18_Witness ==
    \E c \in Calls :
        /\ Done(c)
        /\ frames[c].chronic_conditions = <<"diabetes", "diabetes", "diabetes">>
        /\ frames[c].family_history = <<"diabetes", "gout", "diabetes">>
        /\ frames[c].chronic_risk = Dec2(288)
        /\ frames[c].family_risk = Dec2(30)
        /\ Len(frames[c].chronic_breakdown) = 3

\* x <= y on rationals
RatLeq(x, y) == x.n * y.d <= y.n * x.d

\* the estimator's tables are in range: weights, family risks and base costs
\* not negative, the discount rate between 0 and 1
InRange(self) ==
    /\ \A name \in DOMAIN self.weights : RatLeq(Zero, self.weights[name].value)
    /\ \A name \in DOMAIN self.family_history_risk :
          RatLeq(Zero, self.family_history_risk[name])
    /\ \A k \in 1..Len(self.cost_data) : self.cost_data[k].base_cost >= 0
    /\ RatLeq(Zero, self.insurance_discount_rate)
    /\ RatLeq(self.insurance_discount_rate, One)

\* C19: with lifestyle_score in 0..10 and the estimator's tables in range,
\* the total risk is not negative, "Cost Before Insurance" is at least "Base
\* Cost", and the value of "Insurance Discount" (the unrounded final cost) is
\* at most "Cost Before Insurance" and at least 0, and equal to "Cost Before
\* Insurance" when insurance_status is False.
C19_CostsOrdered ==
    \A c \in Calls :
        (Done(c) /\ InRange(agent) /\ frames[c].lifestyle_score \in 0..10) =>
            LET f == frames[c]
                d == f.result.details
                base == StepValue(d, "Base Cost")
                before == StepValue(d, "Cost Before Insurance")
                final == StepValue(d, "Insurance Discount")
            IN  /\ RatLeq(Zero, StepValue(d, "Total Risk Factor"))
                /\ RatLeq(base, before)
                /\ RatLeq(final, before)
                /\ RatLeq(Zero, final)
                /\ ~f.insurance_status => final = before
                /\ final = f.final_cost

\* an insured call has returned with a risk and a discount that change the cost
C19_Witness ==
    \E c \in Calls :
        /\ Done(c) /\ InRange(agent) /\ frames[c].insurance_status
        /\ StepValue(frames[c].result.details, "Base Cost") # Zero
        /\ StepValue(frames[c].result.details, "Total Risk Factor") # Zero
        /\ StepValue(frames[c].result.details, "Insurance Discount") #
              StepValue(frames[c].result.details, "Cost Before Insurance")
====
